---- MODULE Spec2Model ----
(***************************************************************************)
(* Kabanda assistant: the Telegram webhook, the Celery jobs                *)
(* parse_user_message / schedule_reminder / escalate_reminder and the      *)
(* user actions on Task rows, as a state machine over the database, the    *)
(* Celery broker queue and the workers' positions.                         *)
(*                                                                         *)
(* Time is counted in minutes.  A queued job may start once the clock has  *)
(* reached its eta; the clock moves from one timer instant to the next.    *)
(***************************************************************************)
EXTENDS Integers, Sequences, FiniteSets, Bags, TLC

\* ------------------------------------------------------------------ bounds
NumUsers == 1            \* owners 1..NumUsers that act in the one-owner runs
NumOwners == 2           \* User rows 1..NumOwners
OwnerDeliveries == 3     \* webhook posts in a run of SpecOwners
OwnerOps == 1            \* button callbacks in a run of SpecOwners
MaxMsgId == 3            \* Telegram message ids 1..MaxMsgId
IntakeDeliveries == 2    \* webhook posts in a run of SpecIntake
RemindDeliveries == 2    \* webhook posts in a run of SpecRemind
RemindUserOps == 2       \* button presses and task_action requests in SpecRemind
RemindMaxTime == 30      \* the clock of SpecRemind stops here
EscDeliveries == 3       \* webhook posts in a run of SpecEscalation
EscMaxTime == 60         \* the clock of SpecEscalation stops here
LocDeliveries == 3       \* webhook posts in a run of SpecLocation
CallbackOps == 3         \* button callbacks delivered in a run of SpecCallback
CallbackMaxTime == 40    \* the clock stops there in SpecCallback
SendFailDeliveries == 2  \* webhook posts in a run of SpecSendFailure
SendFailMaxTime == 40    \* the clock stops there in SpecSendFailure
CancelDeliveries == 3
CancelMaxTime == 30
ReadOnlyDeliveries == 3
BatchDeliveries == 2
TermMaxTime == 200
CreateDeliveries == 1    \* webhook posts in a run of SpecCreate
QueryTasks == 2          \* Task rows at the start of SpecQuery
QueryDeliveries == 1     \* webhook posts in a run of SpecQuery

\* ------------------------------------------------------- program constants
ParseMaxRetries == 3         \* @shared_task(bind=True, max_retries=3)
ParseBackoffBase == 1        \* countdown=60 * 2**retries seconds, in minutes
EscalateAfter == 2           \* if task.reminder_count >= 2
EscalationMinutes == 10      \* countdown=600
MaxEscalations == 10         \* if task.reminder_count < 10
ReminderMaxRetries == 5      \* @shared_task(bind=True, max_retries=5)
ReminderRetryMinutes == 5    \* raise self.retry(exc=e, countdown=300)
UrgentAfter == 3             \* if task.reminder_count >= 3
ButtonSnoozeMinutes == 30    \* task.snooze(minutes=30)
DefaultSnoozeMinutes == 10   \* request.POST.get('minutes', 10)

NoonHour == 12               \* today_start.replace(hour=12)
EveningHour == 18            \* today_start.replace(hour=18)
WeekDays == 7                \* timedelta(days=7)
UpcomingDays == 30           \* timedelta(days=30)
OwnerUtcOffset == 180        \* settings.TIME_ZONE is EAT, UTC+3; timezone.now() is UTC

NoTime == -999               \* a null DateTimeField
NoId == 0                    \* telegram_message_id = None
NoTask == 0                  \* no Task row

Users == 1..NumUsers
Owners == 1..NumOwners
MsgIds == 1..MaxMsgId
Workers == {"w1", "w2"}
Terminal == {"completed", "cancelled"}

\* A text stands for the structured intent the AI service returns for it.
\* (intent, due_datetime, query_type, the due times of tasks[],
\* needs_location_input)
NoText ==
    [intent |-> "none", due |-> NoTime, query_type |-> "today", drafts |-> <<>>,
     needs_location_input |-> FALSE]
Text(intent, due) == [NoText EXCEPT !.intent = intent, !.due = due]

\* "what do I have this afternoon?"
QueryText(q) == [Text("query_tasks", NoTime) EXCEPT !.query_type = q]

\* "remind me to call Ann at 10 and find me a place for dinner at 8"
NewTasksText(drafts, needs) ==
    [Text("new_tasks", NoTime) EXCEPT !.drafts = drafts, !.needs_location_input = needs]

QueryTypes == {"today", "morning", "afternoon", "evening", "week", "upcoming", "all"}

\* minutes values a client can post to task_action (int(minutes), unchecked)
PostedMinutes == {-10, 0, DefaultSnoozeMinutes}

VARIABLES
    now,        \* timezone.now(), minutes
    tasks,      \* Task rows, id = index
    reminders,  \* Reminder rows
    inLogs,     \* ConversationLog rows with direction='incoming', per (user, id)
    queue,      \* the broker: a bag of queued jobs
    wk,         \* per worker: position, job, in-memory Task instance, Reminder id
    posted,     \* the text of the update with a given (user, id), once posted
    deliveries, \* webhook posts so far
    enq,        \* parse_user_message.delay calls, per (user, id)
    ran,        \* executions of parse_user_message that got past the
                \* idempotency check and ended, per (user, id)
    noops,      \* executions that returned at the idempotency check and had
                \* started after another one had ended, per (user, id)
    responses,  \* text responses sent by parse_user_message, per (user, id)
    sends,      \* per task: what the reminder jobs did so far
    userOps,    \* button presses and task_action requests so far
    answer,     \* per user: the tasks listed in the last reply to query_tasks
    pending,    \* per user: the UserContext row 'pending_location_tasks'
    lastCb      \* the button callback delivered last, and what it left behind

vars == <<now, tasks, reminders, inLogs, queue, wk, posted, deliveries, enq, ran,
          noops, responses, sends, userOps, answer, pending, lastCb>>

\* ----------------------------------------------------------------- helpers
\* spaced: for an escalation job, whether its eta lies EscalationMinutes or
\* more after the message of the job that queued it
Job(kind, user, mid, text, task, eta, retries) ==
    [kind |-> kind, user |-> user, mid |-> mid, text |-> text, task |-> task,
     eta |-> eta, retries |-> retries, spaced |-> TRUE]

NoJob == Job("none", 0, NoId, NoText, NoTask, 0, 0)

\* apply_async / delay: put one more copy of the job on the broker
Enqueue(q, j) == q (+) SetToBag({j})

Dequeue(q, j) == q (-) SetToBag({j})

Queued == BagToSet(queue)

\* Task.objects.create(...): a pending row, nothing reminded yet
NewTask(user, due, mid) ==
    [user |-> user, status |-> "pending", due_at |-> due,
     completed_at |-> NoTime, snoozed_until |-> NoTime, reminder_count |-> 0,
     last_reminded_at |-> NoTime, mid |-> mid]

NoRow == NewTask(0, NoTime, NoId)

\* UserContext(key='pending_location_tasks'): at most one row per user
\* (unique_together); drafts are the due times of the task drafts held
NoPending ==
    [exists |-> FALSE, is_active |-> FALSE, drafts |-> <<>>, original |-> NoText]

\* sent: when this execution sent its message; tier: the wording it used;
\* ctx: the in-memory UserContext instance
Idle ==
    [pc |-> "idle", job |-> NoJob, row |-> NoRow, rem |-> 0, sent |-> NoTime,
     tier |-> "none", ctx |-> NoPending]

TaskIds == 1..Len(tasks)

Zero2 == [u \in Owners |-> [m \in MsgIds \cup {NoId} |-> 0]]

Bump(f, u, m) == [f EXCEPT ![u][m] = @ + 1]

\* per task: messages sent by dispatch jobs and by escalation jobs, the time
\* of the last snooze, dispatch messages sent since then at or after its end,
\* runs of schedule_reminder / escalate_reminder that ended at the
\* terminal test, runs of schedule_reminder that ended in the except clause,
\* and whether a delete_task message has stored the cancellation of the task
NoSends ==
    [dispatch |-> 0, escalation |-> 0, snoozedAt |-> NoTime, afterSnooze |-> 0,
     skipped |-> 0, eskipped |-> 0, failed |-> 0, deleted |-> FALSE]


\* nothing was asked yet; said is the wording of the last reply to a
\* modify_task message ("updated": "Updated: ... is now scheduled for ...",
\* "not_found": "I couldn't find a recent task to modify")
NoAnswer == [query_type |-> "none", tasks |-> {}, said |-> "none"]

\* no button callback was delivered yet
NoCallback == [user |-> 0, action |-> "none", task |-> NoTask, after |-> NoRow,
               deliveries |-> 0]

\* ---------------------------------------------------------------- Init
Init ==
    /\ now = 0
    /\ tasks = <<>>
    /\ reminders = <<>>
    /\ inLogs = Zero2
    /\ queue = EmptyBag
    /\ wk = [w \in Workers |-> Idle]
    /\ posted = [u \in Owners |-> [m \in MsgIds |-> NoText]]
    /\ deliveries = 0
    /\ enq = Zero2
    /\ ran = Zero2
    /\ noops = Zero2
    /\ responses = Zero2
    /\ sends = <<>>
    /\ userOps = 0
    /\ answer = [u \in Owners |-> NoAnswer]
    /\ pending = [u \in Owners |-> NoPending]
    /\ lastCb = NoCallback

\* ------------------------------------------------------------ the webhook
\* telegram_webhook: a message update with chat, text and message_id.
\* Telegram delivers at least once: an update that was posted before may be
\* posted again, with the same text.  message_id may be absent
\* (message.get('message_id') is None).
TelegramWebhook(u, m, text) ==
    /\ m # NoId => posted[u][m] \in {NoText, text}
    /\ posted' = IF m = NoId THEN posted ELSE [posted EXCEPT ![u][m] = text]
    /\ deliveries' = deliveries + 1
    /\ queue' = Enqueue(queue, Job("parse", u, m, text, NoTask, now, 0))
    /\ enq' = Bump(enq, u, m)
    /\ UNCHANGED <<now, tasks, reminders, inLogs, wk, ran, noops, responses, sends,
                   userOps>>
    /\ UNCHANGED <<answer, pending, lastCb>>

\* ------------------------------------------------------ _get_user_tasks
Hours(h) == h * 60

Days(d) == d * Hours(24)

\* now.replace(hour=0, minute=0, second=0, microsecond=0)
TodayStart(t) == t - (t % Days(1))

\* the due_at filter of each query_type, at time t
InWindow(q, due, t) ==
    LET today_start == TodayStart(t)
        today_end == today_start + Days(1)
    IN  CASE q = "afternoon" ->
                 due >= today_start + Hours(NoonHour) /\ due < today_start + Hours(EveningHour)
          [] q = "evening" -> due >= today_start + Hours(EveningHour) /\ due < today_end
          [] q = "morning" -> due >= today_start /\ due < today_start + Hours(NoonHour)
          [] q = "week" -> due >= today_start /\ due < today_start + Days(WeekDays)
          [] q = "upcoming" -> due >= t /\ due < today_start + Days(UpcomingDays)
          [] q = "all" -> due >= t
          [] OTHER -> due >= today_start /\ due < today_end

\* _get_user_tasks(user, parsed): the ids of the rows returned (the order,
\* by due_at, is left out)
GetUserTasks(u, q) ==
    {i \in TaskIds : /\ tasks[i].user = u /\ tasks[i].status = "pending"
                     /\ InWindow(q, tasks[i].due_at, now)}

\* what the owner reads on the clock: task.due_at.astimezone(tz)
LocalTime(t) == t + OwnerUtcOffset

\* ------------------------------------------------- parse_user_message
\* (mutant) the check asks for more than one log row
AlreadyProcessedTwice(u, m) == m # NoId /\ inLogs[u][m] > 1

\* The idempotency check of parse_user_message: an incoming ConversationLog
\* of this user with this telegram_message_id exists.
AlreadyProcessed(u, m) == m # NoId /\ inLogs[u][m] > 0

\* (mutant) the newest pending task, whoever owns it
FindRecentTaskOfAnyone(u) ==
    LET any == {i \in TaskIds : tasks[i].status = "pending"}
    IN  IF any = {} THEN NoTask ELSE CHOOSE i \in any : \A k \in any : k <= i

\* _find_recent_task: the user's most recently created pending task
\* (rows are created in id order, so the newest row has the largest id).
FindRecentTask(u) ==
    LET mine == {i \in TaskIds : tasks[i].user = u /\ tasks[i].status = "pending"}
    IN  IF mine = {} THEN NoTask ELSE CHOOSE i \in mine : \A k \in mine : k <= i

Pow2(r) == IF r = 0 THEN 1 ELSE IF r = 1 THEN 2 ELSE IF r = 2 THEN 4 ELSE 8

\* (mutant) the same delay before every retry
ParseRetryFixedDelay(q, j) ==
    IF j.retries < ParseMaxRetries
    THEN Enqueue(q, [j EXCEPT !.retries = @ + 1, !.eta = now + ParseBackoffBase])
    ELSE q

\* self.retry(exc=e, countdown=60 * (2 ** self.request.retries))
ParseRetry(q, j) ==
    IF j.retries < ParseMaxRetries
    THEN Enqueue(q, [j EXCEPT !.retries = @ + 1,
                              !.eta = now + ParseBackoffBase * Pow2(j.retries)])
    ELSE q

\* a worker takes a parse_user_message job and runs the idempotency check
ParseStart(w, j) ==
    /\ wk[w].pc = "idle"
    /\ j \in Queued /\ j.kind = "parse" /\ j.eta <= now
    /\ queue' = Dequeue(queue, j)
    /\ IF AlreadyProcessed(j.user, j.mid)
       THEN /\ noops' = IF ran[j.user][j.mid] > 0 THEN Bump(noops, j.user, j.mid)
                        ELSE noops
            /\ UNCHANGED wk
       ELSE /\ wk' = [wk EXCEPT ![w] = [Idle EXCEPT !.pc = "log", !.job = j]]
            /\ UNCHANGED noops
    /\ UNCHANGED <<now, tasks, reminders, inLogs, posted, deliveries, enq, ran,
                   responses, sends, userOps>>
    /\ UNCHANGED <<answer, pending, lastCb>>

\* ConversationLog.objects.create(direction='incoming', ...)
ParseLog(w) ==
    /\ wk[w].pc = "log"
    /\ inLogs' = Bump(inLogs, wk[w].job.user, wk[w].job.mid)
    /\ wk' = [wk EXCEPT ![w].pc = "handle"]
    /\ UNCHANGED <<now, tasks, reminders, queue, posted, deliveries, enq, ran,
                   responses, sends, userOps, noops>>
    /\ UNCHANGED <<answer, pending, lastCb>>

\* an exception raised inside the try block after the incoming log was
\* written, or after the tasks of a pending batch were created (a database
\* or broker error): the except clause calls self.retry
ParseFail(w) ==
    LET j == wk[w].job IN
    /\ wk[w].pc \in {"handle", "clear"}
    /\ queue' = ParseRetry(queue, j)
    /\ ran' = Bump(ran, j.user, j.mid)
    /\ wk' = [wk EXCEPT ![w] = Idle]
    /\ UNCHANGED <<now, tasks, reminders, inLogs, posted, deliveries, enq,
                   responses, sends, userOps, noops>>
    /\ UNCHANGED <<answer, pending, lastCb>>

\* (mutant) the location is never asked for
AsksForLocationNever(text) == FALSE

\* if parsed.get('needs_location_input')
AsksForLocation(text) == text.needs_location_input

\* every draft carries a due time
AllDue(drafts) == \A k \in 1..Len(drafts) : drafts[k] # NoTime

\* the loop of _create_multiple_tasks: Task.objects.create(due_at=None)
\* raises (Task.due_at is not nullable) and ends the loop; the rows created
\* before it are committed, each create being a transaction of its own
Creatable(drafts) ==
    LET bad == {k \in 1..Len(drafts) : drafts[k] = NoTime}
    IN  IF bad = {} THEN drafts
        ELSE SubSeq(drafts, 1, (CHOOSE k \in bad : \A i \in bad : k <= i) - 1)

\* _create_multiple_tasks and the schedule_reminder.apply_async loop, for
\* drafts given by their due times
NewTasks(u, drafts, mid) == [k \in 1..Len(drafts) |-> NewTask(u, drafts[k], mid)]

\* (mutant) only the first task of a batch is scheduled
NewDispatchJobsFirstOnly(u, drafts, first) ==
    SetToBag({Job("dispatch", u, NoId, NoText, first + k, drafts[k], 0) : k
                  \in 1..Len(drafts) \cap {1}})

NewDispatchJobs(u, drafts, first) ==
    SetToBag({Job("dispatch", u, NoId, NoText, first + k, drafts[k], 0) : k
                  \in 1..Len(drafts)})

\* the intents that have a branch of their own in parse_user_message
KnownIntents ==
    {"new_task", "new_tasks", "location_query_needed", "modify_task", "delete_task",
     "query_tasks"}

\* (mutant) an intent without a branch is handled as delete_task
BranchElseDeletes(text) ==
    IF text.intent \in KnownIntents THEN text.intent ELSE "delete_task"

\* the if / elif chain on parsed['intent']: every other intent
\* (general_question, anything unclassified) takes the else branch
Branch(text) == IF text.intent \in KnownIntents THEN text.intent ELSE "else"

\* the branch on parsed['intent'], up to the response
ParseHandle(w) ==
    LET j == wk[w].job
        u == j.user
        t == FindRecentTask(u)
        replied == /\ responses' = Bump(responses, u, j.mid)
                   /\ ran' = Bump(ran, u, j.mid)
                   /\ wk' = [wk EXCEPT ![w] = Idle]
        failed == /\ queue' = ParseRetry(queue, j)
                  /\ ran' = Bump(ran, u, j.mid)
                  /\ wk' = [wk EXCEPT ![w] = Idle]
                  /\ UNCHANGED responses
    IN
    /\ wk[w].pc = "handle"
    /\ \/ /\ Branch(j.text) = "new_task" /\ j.text.due # NoTime
          /\ tasks' = Append(tasks, NewTask(u, j.text.due, j.mid))
          /\ sends' = Append(sends, NoSends)
          /\ queue' = Enqueue(queue, Job("dispatch", u, NoId, NoText,
                                         Len(tasks) + 1, j.text.due, 0))
          /\ UNCHANGED <<answer, pending>>
          /\ replied
       \/ \* Task.objects.create(due_at=None) raises; the job is retried
          /\ Branch(j.text) = "new_task" /\ j.text.due = NoTime
          /\ failed
          /\ UNCHANGED <<tasks, sends, answer, pending>>
       \/ /\ Branch(j.text) = "modify_task"
          /\ IF t # NoTask /\ j.text.due # NoTime
             THEN /\ tasks' = [tasks EXCEPT ![t].due_at = j.text.due]
                  /\ queue' = Enqueue(queue, Job("dispatch", u, NoId, NoText,
                                                 t, j.text.due, 0))
             ELSE UNCHANGED <<tasks, queue>>
          /\ answer' = [answer EXCEPT ![u].said =
                            IF t # NoTask THEN "updated" ELSE "not_found"]
          /\ UNCHANGED <<sends, pending>>
          /\ replied
       \/ /\ Branch(j.text) = "delete_task"
          /\ tasks' = IF t # NoTask THEN [tasks EXCEPT ![t].status = "cancelled"]
                      ELSE tasks
          /\ sends' = IF t # NoTask THEN [sends EXCEPT ![t].deleted = TRUE]
                      ELSE sends
          /\ UNCHANGED <<queue, answer, pending>>
          /\ replied
       \/ /\ Branch(j.text) = "new_tasks" /\ AsksForLocation(j.text)
          /\ pending' = [pending EXCEPT ![u] =
                             [exists |-> TRUE, is_active |-> TRUE,
                              drafts |-> j.text.drafts, original |-> j.text]]
          /\ UNCHANGED <<tasks, queue, sends, answer>>
          /\ replied
       \/ /\ Branch(j.text) = "new_tasks" /\ ~AsksForLocation(j.text)
          /\ tasks' = tasks \o NewTasks(u, Creatable(j.text.drafts), j.mid)
          /\ sends' = sends \o [k \in 1..Len(Creatable(j.text.drafts)) |-> NoSends]
          /\ UNCHANGED <<answer, pending>>
          /\ IF AllDue(j.text.drafts)
             THEN /\ queue' = queue (+) NewDispatchJobs(u, j.text.drafts, Len(tasks))
                  /\ replied
             ELSE failed
       \/ /\ Branch(j.text) = "location_query_needed"
          /\ IF pending[u].exists /\ pending[u].is_active
             THEN /\ tasks' = tasks \o NewTasks(u, Creatable(pending[u].drafts), j.mid)
                  /\ sends' = sends \o
                                [k \in 1..Len(Creatable(pending[u].drafts)) |-> NoSends]
                  /\ IF AllDue(pending[u].drafts)
                     THEN /\ queue' = queue (+)
                                         NewDispatchJobs(u, pending[u].drafts, Len(tasks))
                          /\ wk' = [wk EXCEPT ![w].pc = "clear", ![w].ctx = pending[u]]
                          /\ UNCHANGED <<responses, ran>>
                     ELSE failed
             ELSE /\ UNCHANGED <<tasks, queue, sends>>
                  /\ replied
          /\ UNCHANGED <<answer, pending>>
       \/ /\ Branch(j.text) = "query_tasks"
          /\ answer' = [answer EXCEPT ![u] =
                            [@ EXCEPT !.query_type = j.text.query_type,
                                      !.tasks = GetUserTasks(u, j.text.query_type)]]
          /\ UNCHANGED <<tasks, queue, sends, pending>>
          /\ replied
       \/ /\ Branch(j.text) = "else"
          /\ UNCHANGED <<tasks, queue, sends, answer, pending>>
          /\ replied
    /\ UNCHANGED <<now, reminders, inLogs, posted, deliveries, enq, userOps, noops,
                   lastCb>>

\* "Clear pending context": pending_context.is_active = False; save() writes
\* the in-memory instance; then the confirmation
ParseClear(w) ==
    LET j == wk[w].job IN
    /\ wk[w].pc = "clear"
    /\ pending' = [pending EXCEPT ![j.user] = [wk[w].ctx EXCEPT !.is_active = FALSE]]
    /\ responses' = Bump(responses, j.user, j.mid)
    /\ ran' = Bump(ran, j.user, j.mid)
    /\ wk' = [wk EXCEPT ![w] = Idle]
    /\ UNCHANGED <<now, tasks, reminders, inLogs, queue, posted, deliveries, enq,
                   sends, userOps, noops, answer, lastCb>>

\* --------------------------------------------------------- Task methods
\* Task.mark_completed
MarkCompleted(row) == [row EXCEPT !.status = "completed", !.completed_at = now]

\* Task.snooze(minutes)
Snooze(row, minutes) ==
    [row EXCEPT !.status = "snoozed", !.snoozed_until = now + minutes]

\* (mutant) the count is not raised
IncrementReminderKeepsCount(row) == [row EXCEPT !.last_reminded_at = now]

\* Task.increment_reminder, on the in-memory instance
IncrementReminder(row) ==
    [row EXCEPT !.reminder_count = @ + 1, !.last_reminded_at = now]

\* (mutant) the test forgets the cancelled tasks
SkipsCompletedOnly(row) == row.status = "completed"

\* the status test both jobs make before doing anything
SkipsJob(row) == row.status \in Terminal

\* (mutant) the snooze test looks at the status only after the snooze ran out
StillSnoozedLate(row) == row.status = "snoozed" /\ row.snoozed_until <= now

\* schedule_reminder: the task is snoozed and its snooze has not run out
StillSnoozed(row) == row.status = "snoozed" /\ row.snoozed_until > now

\* (mutant) escalation starts with the first reminder
NeedsEscalationAtOnce(row) == row.reminder_count >= 1

\* schedule_reminder: "Schedule escalation if needed"
NeedsEscalation(row) == row.reminder_count >= EscalateAfter

\* escalate_reminder: "Keep escalating ... until acknowledged"
KeepsEscalating(row) == row.reminder_count < MaxEscalations

\* (mutant) urgent from the first escalation on
TierFromStart(row) ==
    IF row.reminder_count >= EscalateAfter THEN "urgent" ELSE "persistent"

\* escalate_reminder: the wording of the message
Tier(row) == IF row.reminder_count >= UrgentAfter THEN "urgent" ELSE "persistent"

DispatchJob(u, t, eta) == Job("dispatch", u, NoId, NoText, t, eta, 0)

EscalateJob(u, t, eta, prev) ==
    [Job("escalate", u, NoId, NoText, t, eta, 0)
        EXCEPT !.spaced = (eta >= prev + EscalationMinutes)]

\* ---------------------------------------------------- schedule_reminder
\* Task.objects.get, the terminal test and the snooze test
DispatchStart(w, j) ==
    LET row == tasks[j.task] IN
    /\ wk[w].pc = "idle"
    /\ j \in Queued /\ j.kind = "dispatch" /\ j.eta <= now
    /\ IF j.task \notin TaskIds
       THEN \* except Task.DoesNotExist: logged, nothing else
            /\ queue' = Dequeue(queue, j)
            /\ UNCHANGED <<wk, sends>>
       ELSE IF SkipsJob(row)
       THEN /\ queue' = Dequeue(queue, j)
            /\ sends' = [sends EXCEPT ![j.task].skipped = @ + 1]
            /\ UNCHANGED wk
       ELSE IF StillSnoozed(row)
       THEN /\ queue' = Enqueue(Dequeue(queue, j),
                                DispatchJob(j.user, j.task, row.snoozed_until))
            /\ UNCHANGED <<wk, sends>>
       ELSE /\ queue' = Dequeue(queue, j)
            /\ wk' = [wk EXCEPT ![w] = [Idle EXCEPT !.pc = "record", !.job = j,
                                                    !.row = row]]
            /\ UNCHANGED sends
    /\ UNCHANGED <<now, tasks, reminders, inLogs, posted, deliveries, enq, ran,
                   responses, userOps, noops>>
    /\ UNCHANGED <<answer, pending, lastCb>>

\* Reminder.objects.create(status='scheduled', ...)
DispatchRecord(w) ==
    /\ wk[w].pc = "record"
    /\ reminders' = Append(reminders, [task |-> wk[w].job.task, status |-> "scheduled"])
    /\ wk' = [wk EXCEPT ![w].pc = "send", ![w].rem = Len(reminders) + 1]
    /\ UNCHANGED <<now, tasks, inLogs, queue, posted, deliveries, enq, ran,
                   responses, sends, userOps, noops>>
    /\ UNCHANGED <<answer, pending, lastCb>>

\* telegram_service.send_message(...); reminder.mark_sent()
DispatchSend(w) ==
    LET t == wk[w].job.task IN
    /\ wk[w].pc = "send"
    /\ sends' = [sends EXCEPT ![t].dispatch = @ + 1,
                              ![t].afterSnooze =
                                  IF StillSnoozed(tasks[t]) THEN @ ELSE @ + 1]
    /\ reminders' = [reminders EXCEPT ![wk[w].rem].status = "sent"]
    /\ wk' = [wk EXCEPT ![w].pc = "save", ![w].sent = now]
    /\ UNCHANGED <<now, tasks, inLogs, queue, posted, deliveries, enq, ran,
                   responses, userOps, noops>>
    /\ UNCHANGED <<answer, pending, lastCb>>

\* task.increment_reminder() saves the in-memory instance, every field of it;
\* then the escalation job is queued when the count has reached EscalateAfter
DispatchSave(w) ==
    LET t == wk[w].job.task
        row == IncrementReminder(wk[w].row)
    IN
    /\ wk[w].pc = "save"
    /\ tasks' = [tasks EXCEPT ![t] = row]
    /\ queue' = IF NeedsEscalation(row)
                THEN Enqueue(queue, EscalateJob(row.user, t, now + EscalationMinutes,
                                                wk[w].sent))
                ELSE queue
    /\ wk' = [wk EXCEPT ![w] = Idle]
    /\ UNCHANGED <<now, reminders, inLogs, posted, deliveries, enq, ran,
                   responses, sends, userOps, noops>>
    /\ UNCHANGED <<answer, pending, lastCb>>

\* (mutant) retries without a cap
DispatchRetryUncapped(q, j) ==
    Enqueue(q, [j EXCEPT !.retries = @ + 1, !.eta = now + ReminderRetryMinutes])

\* raise self.retry(exc=e, countdown=300), on a task with max_retries=5
DispatchRetry(q, j) ==
    IF j.retries < ReminderMaxRetries
    THEN Enqueue(q, [j EXCEPT !.retries = @ + 1, !.eta = now + ReminderRetryMinutes])
    ELSE q

\* an exception inside the try block of schedule_reminder (a database or
\* broker error), before the Reminder row is created, between that and the
\* message, or after the message: nothing of the in-memory task is saved and
\* the except clause calls self.retry(exc=e, countdown=300)
DispatchFail(w) ==
    LET j == wk[w].job IN
    /\ wk[w].pc \in {"record", "send", "save"}
    /\ queue' = DispatchRetry(queue, j)
    /\ sends' = [sends EXCEPT ![j.task].failed = @ + 1]
    /\ wk' = [wk EXCEPT ![w] = Idle]
    /\ UNCHANGED <<now, tasks, reminders, inLogs, posted, deliveries, enq, ran,
                   responses, userOps, noops, answer, pending, lastCb>>

\* ---------------------------------------------------- escalate_reminder
EscalateStart(w, j) ==
    LET row == tasks[j.task] IN
    /\ wk[w].pc = "idle"
    /\ j \in Queued /\ j.kind = "escalate" /\ j.eta <= now
    /\ queue' = Dequeue(queue, j)
    /\ IF SkipsJob(row)
       THEN /\ sends' = [sends EXCEPT ![j.task].eskipped = @ + 1]
            /\ UNCHANGED wk
       ELSE /\ wk' = [wk EXCEPT ![w] = [Idle EXCEPT !.pc = "esend", !.job = j,
                                                    !.row = row]]
            /\ UNCHANGED sends
    /\ UNCHANGED <<now, tasks, reminders, inLogs, posted, deliveries, enq, ran,
                   responses, userOps, noops>>
    /\ UNCHANGED <<answer, pending, lastCb>>

\* telegram_service.send_message(task.user, message, buttons=buttons)
EscalateSend(w) ==
    LET t == wk[w].job.task IN
    /\ wk[w].pc = "esend"
    /\ sends' = [sends EXCEPT ![t].escalation = @ + 1]
    /\ wk' = [wk EXCEPT ![w].pc = "esave", ![w].sent = now,
                        ![w].tier = Tier(wk[w].row)]
    /\ UNCHANGED <<now, tasks, reminders, inLogs, queue, posted, deliveries, enq,
                   ran, responses, userOps, noops>>
    /\ UNCHANGED <<answer, pending, lastCb>>

\* the message does not go out and send_message returns None: it catches
\* TelegramError and every other exception (telegram_service.py:52-57); the
\* caller does not look at the result
EscalateSendReturnsNone(w) ==
    /\ wk[w].pc = "esend"
    /\ wk' = [wk EXCEPT ![w].pc = "esave", ![w].tier = Tier(wk[w].row)]
    /\ UNCHANGED <<now, tasks, reminders, inLogs, queue, posted, deliveries, enq,
                   ran, responses, sends, userOps, noops, answer, pending, lastCb>>

\* an exception reaches escalate_reminder (get_telegram_service() without a
\* token, an error in the call itself): only Task.DoesNotExist is caught, the
\* job ends as failed
EscalateRaise(w) ==
    /\ wk[w].pc = "esend"
    /\ wk' = [wk EXCEPT ![w] = Idle]
    /\ UNCHANGED <<now, tasks, reminders, inLogs, queue, posted, deliveries, enq,
                   ran, responses, sends, userOps, noops, answer, pending, lastCb>>

\* task.increment_reminder(), then the next escalation while under the cap
EscalateSave(w) ==
    LET t == wk[w].job.task
        row == IncrementReminder(wk[w].row)
    IN
    /\ wk[w].pc = "esave"
    /\ tasks' = [tasks EXCEPT ![t] = row]
    /\ queue' = IF KeepsEscalating(row)
                THEN Enqueue(queue, EscalateJob(row.user, t, now + EscalationMinutes,
                                                wk[w].sent))
                ELSE queue
    /\ wk' = [wk EXCEPT ![w] = Idle]
    /\ UNCHANGED <<now, reminders, inLogs, posted, deliveries, enq, ran,
                   responses, sends, userOps, noops>>
    /\ UNCHANGED <<answer, pending, lastCb>>

\* ------------------------------------------------------------ user actions
\* what a user action does to the history of sends: a snooze starts a new count
Acked(s, action) ==
    IF action = "snooze" THEN [s EXCEPT !.snoozedAt = now, !.afterSnooze = 0] ELSE s

\* the buttons of a reminder: callback_data complete_<id>, snooze_<id>,
\* delete_<id>
Buttons == {"complete", "snooze", "delete"}

\* _handle_callback_query: callback_data = action_taskid, from chat of user u
CallbackRow(row, action) ==
    IF action = "complete" THEN MarkCompleted(row)
    ELSE IF action = "snooze" THEN Snooze(row, ButtonSnoozeMinutes)
    ELSE row

\* the handler's effect on the program's state; callback_query['id'] is read
\* and passed to answer_callback_query only
CallbackEffect(u, action, t) ==
    /\ userOps' = userOps + 1
    /\ IF t \in TaskIds /\ tasks[t].user = u
       THEN /\ tasks' = [tasks EXCEPT ![t] = CallbackRow(@, action)]
            /\ sends' = [sends EXCEPT ![t] = Acked(@, action)]
       ELSE UNCHANGED <<tasks, sends>>
    /\ UNCHANGED <<now, reminders, inLogs, queue, wk, posted, deliveries, enq,
                   ran, responses, noops>>
    /\ UNCHANGED <<answer, pending>>

HandleCallbackQuery(u, action, t) ==
    /\ CallbackEffect(u, action, t)
    /\ UNCHANGED lastCb

\* the same handler, the update being remembered: a callback with a new id
DeliverCallback(u, action, t) ==
    /\ CallbackEffect(u, action, t)
    /\ lastCb' = [user |-> u, action |-> action, task |-> t,
                  after |-> tasks'[t], deliveries |-> 1]

\* Telegram delivers the last update once more: same id, same data, same chat
RedeliverCallback ==
    /\ lastCb.deliveries >= 1
    /\ CallbackEffect(lastCb.user, lastCb.action, lastCb.task)
    /\ lastCb' = [lastCb EXCEPT !.deliveries = @ + 1]

\* task_action: POST /api/task/<task_id>/<action>/ by the authenticated user u
TaskActionRow(row, action, minutes) ==
    IF action = "complete" THEN MarkCompleted(row)
    ELSE IF action = "snooze" THEN Snooze(row, minutes)
    ELSE IF action = "cancel" THEN [row EXCEPT !.status = "cancelled"]
    ELSE row

TaskAction(u, t, action, minutes) ==
    /\ userOps' = userOps + 1
    /\ IF t \in TaskIds /\ tasks[t].user = u
       THEN /\ tasks' = [tasks EXCEPT ![t] = TaskActionRow(@, action, minutes)]
            /\ sends' = [sends EXCEPT ![t] = Acked(@, action)]
       ELSE UNCHANGED <<tasks, sends>>
    /\ UNCHANGED <<now, reminders, inLogs, queue, wk, posted, deliveries, enq,
                   ran, responses, noops>>
    /\ UNCHANGED <<answer, pending, lastCb>>

\* ------------------------------------------------------------------ time
\* the instants at which something is due: etas of queued jobs and the ends
\* of snoozes
Timers ==
    {j.eta : j \in Queued} \cup {tasks[t].snoozed_until : t \in TaskIds}

\* the clock moves on to the next such instant
Tick ==
    LET later == {x \in Timers : x > now} IN
    /\ later # {}
    /\ now' = CHOOSE x \in later : \A y \in later : x <= y
    /\ UNCHANGED <<tasks, reminders, inLogs, queue, wk, posted, deliveries, enq,
                   ran, responses, sends, userOps, noops>>
    /\ UNCHANGED <<answer, pending, lastCb>>

\* ------------------------------------------------------- the whole system
ParseSteps ==
    \/ \E w \in Workers, j \in Queued : ParseStart(w, j)
    \/ \E w \in Workers : ParseLog(w)
    \/ \E w \in Workers : ParseHandle(w)
    \/ \E w \in Workers : ParseFail(w)

ReminderSteps ==
    \/ \E w \in Workers, j \in Queued : DispatchStart(w, j)
    \/ \E w \in Workers : DispatchRecord(w)
    \/ \E w \in Workers : DispatchSend(w)
    \/ \E w \in Workers : DispatchSave(w)
    \/ \E w \in Workers, j \in Queued : EscalateStart(w, j)
    \/ \E w \in Workers : EscalateSend(w)
    \/ \E w \in Workers : EscalateSave(w)

UserSteps ==
    \/ \E u \in Users, t \in TaskIds, a \in Buttons : HandleCallbackQuery(u, a, t)
    \/ \E u \in Users, t \in TaskIds, a \in {"complete", "snooze", "cancel"},
          m \in PostedMinutes : TaskAction(u, t, a, m)

\* updates of any kind, with or without a message id
IntakeTexts ==
    {Text("new_task", 10), Text("new_task", NoTime), Text("modify_task", 20),
     Text("modify_task", NoTime), Text("delete_task", NoTime),
     Text("general_question", NoTime)}

NextIntake ==
    \/ /\ deliveries < IntakeDeliveries
       /\ \E u \in Users, m \in MsgIds \cup {NoId}, text \in IntakeTexts :
             TelegramWebhook(u, m, text)
    \/ ParseSteps
    \/ Tick

SpecIntake == Init /\ [][NextIntake]_vars

\* one task is created and moved, the jobs run and the user acts on the task
RemindTexts == {Text("new_task", 10), Text("modify_task", 20)}

NextRemind ==
    \/ /\ deliveries < RemindDeliveries
       /\ \E u \in Users, m \in 1..RemindDeliveries, text \in RemindTexts :
             TelegramWebhook(u, m, text)
    \/ ParseSteps
    \/ ReminderSteps
    \/ userOps < RemindUserOps /\ UserSteps
    \/ now < RemindMaxTime /\ Tick

SpecRemind == Init /\ [][NextRemind]_vars

\* one task is created and moved several times, each message delivered once
\* under its own id; nobody answers the reminders
EscTexts == {Text("new_task", 10), Text("modify_task", 10)}

NextEscalation ==
    \/ /\ deliveries < EscDeliveries
       /\ \E u \in Users, text \in EscTexts :
             TelegramWebhook(u, deliveries + 1, text)
    \/ ParseSteps
    \/ ReminderSteps
    \/ now < EscMaxTime /\ Tick

SpecEscalation == Init /\ [][NextEscalation]_vars

\* a task is reminded twice and escalated; a message to Telegram may fail
NextSendFailure ==
    \/ /\ deliveries < SendFailDeliveries
       /\ \E u \in Users, text \in EscTexts :
             TelegramWebhook(u, deliveries + 1, text)
    \/ \E w \in Workers, j \in Queued : ParseStart(w, j)
    \/ \E w \in Workers : ParseLog(w)
    \/ \E w \in Workers : ParseHandle(w)
    \/ ReminderSteps
    \/ \E w \in Workers : EscalateSendReturnsNone(w)
    \/ \E w \in Workers : EscalateRaise(w)
    \/ now < SendFailMaxTime /\ Tick

SpecSendFailure == Init /\ [][NextSendFailure]_vars

\* a task is created, moved and deleted by messages while its reminder jobs
\* run; nobody answers the reminders
CancelTexts ==
    {Text("new_task", 10), Text("modify_task", 10), Text("delete_task", NoTime)}

NextCancel ==
    \/ /\ deliveries < CancelDeliveries
       /\ \E u \in Users, text \in CancelTexts :
             TelegramWebhook(u, deliveries + 1, text)
    \/ \E w \in Workers, j \in Queued : ParseStart(w, j)
    \/ \E w \in Workers : ParseLog(w)
    \/ \E w \in Workers : ParseHandle(w)
    \/ ReminderSteps
    \/ now < CancelMaxTime /\ Tick

SpecCancel == Init /\ [][NextCancel]_vars

\* two tasks and a batch that waits for a location exist, reminders may
\* have gone out; then the owner asks what is due or just talks
ReadOnlyFirstTexts == <<NewTasksText(<<10, 20>>, FALSE), NewTasksText(<<10, 20>>, TRUE)>>

ReadOnlyTexts ==
    {QueryText("today"), QueryText("all"), Text("general_question", NoTime),
     Text("small_talk", NoTime)}

NextReadOnly ==
    \/ /\ deliveries < ReadOnlyDeliveries
       /\ \E u \in Users,
             text \in IF deliveries < Len(ReadOnlyFirstTexts)
                      THEN {ReadOnlyFirstTexts[deliveries + 1]} ELSE ReadOnlyTexts :
             TelegramWebhook(u, deliveries + 1, text)
    \/ ParseSteps
    \/ \E w \in Workers, j \in Queued : DispatchStart(w, j)
    \/ \E w \in Workers : DispatchRecord(w)
    \/ \E w \in Workers : DispatchSend(w)
    \/ \E w \in Workers : DispatchSave(w)
    \/ Tick

SpecReadOnly == Init /\ [][NextReadOnly]_vars

\* messages that create tasks, one at a time or as a batch, at once or after
\* the owner has said where they are; some drafts carry no due time
BatchTexts ==
    {Text("new_task", 10), Text("new_task", NoTime),
     NewTasksText(<<10, 20>>, FALSE), NewTasksText(<<10, NoTime>>, FALSE),
     NewTasksText(<<10, 20>>, TRUE), NewTasksText(<<10, NoTime>>, TRUE),
     Text("location_query_needed", NoTime)}

NextBatch ==
    \/ /\ deliveries < BatchDeliveries
       /\ \E u \in Users, text \in BatchTexts :
             TelegramWebhook(u, deliveries + 1, text)
    \/ ParseSteps
    \/ \E w \in Workers : ParseClear(w)
    \/ Tick

SpecBatch == Init /\ [][NextBatch]_vars

\* a message with task drafts, with or without the need to ask where the
\* owner is, followed by messages that give a location
HoldDrafts == <<10, 20>>

LocationFirstTexts ==
    {NewTasksText(HoldDrafts, TRUE), NewTasksText(HoldDrafts, FALSE)}

LocationLaterTexts == {Text("location_query_needed", NoTime)}

NextLocation ==
    \/ /\ deliveries < LocDeliveries
       /\ \E u \in Users,
             text \in IF deliveries = 0 THEN LocationFirstTexts ELSE LocationLaterTexts :
             TelegramWebhook(u, deliveries + 1, text)
    \/ ParseSteps
    \/ \E w \in Workers : ParseClear(w)
    \/ Tick

SpecLocation == Init /\ [][NextLocation]_vars

\* one task is created and its reminder is dispatched, with failures on the way
CreateTexts == {Text("new_task", 10)}

NextCreate ==
    \/ /\ deliveries < CreateDeliveries
       /\ \E u \in Users, text \in CreateTexts :
             TelegramWebhook(u, deliveries + 1, text)
    \/ ParseSteps
    \/ \E w \in Workers, j \in Queued : DispatchStart(w, j)
    \/ \E w \in Workers : DispatchRecord(w)
    \/ \E w \in Workers : DispatchSend(w)
    \/ \E w \in Workers : DispatchSave(w)
    \/ \E w \in Workers : DispatchFail(w)
    \/ Tick

SpecCreate == Init /\ [][NextCreate]_vars

\* the same, when a schedule_reminder job is still queued for a Task row that
\* was deleted in the admin site (its id is not given to another row: it is
\* none of the ids 1..CreateDeliveries of the rows created in the run)
DeletedTask == CreateDeliveries + 1

InitRetry ==
    /\ now = 0
    /\ tasks = <<>>
    /\ reminders = <<>>
    /\ inLogs = Zero2
    /\ queue = SetToBag({DispatchJob(1, DeletedTask, 0)})
    /\ wk = [w \in Workers |-> Idle]
    /\ posted = [u \in Owners |-> [m \in MsgIds |-> NoText]]
    /\ deliveries = 0
    /\ enq = Zero2
    /\ ran = Zero2
    /\ noops = Zero2
    /\ responses = Zero2
    /\ sends = <<>>
    /\ userOps = 0
    /\ answer = [u \in Owners |-> NoAnswer]
    /\ pending = [u \in Owners |-> NoPending]
    /\ lastCb = NoCallback

SpecRetry == InitRetry /\ [][NextCreate]_vars

\* a task that was due at minute 10 with two dispatch jobs: reminded twice at
\* minute 10 and escalated at minutes 20, 30 and 40, the next escalation job
\* queued for minute 50; the owner has then moved it to minute 50, which
\* queued one more dispatch job.  Nobody answers and no message arrives;
\* workers run the jobs that are due and the clock moves on.
InitTermination ==
    /\ now = 40
    /\ tasks = <<[NewTask(1, 50, 1) EXCEPT !.reminder_count = 5,
                                          !.last_reminded_at = 40]>>
    /\ reminders = <<[task |-> 1, status |-> "sent"], [task |-> 1, status |-> "sent"]>>
    /\ inLogs = Zero2
    /\ queue = SetToBag({EscalateJob(1, 1, 50, 40), DispatchJob(1, 1, 50)})
    /\ wk = [w \in Workers |-> Idle]
    /\ posted = [u \in Owners |-> [m \in MsgIds |-> NoText]]
    /\ deliveries = 0
    /\ enq = Zero2
    /\ ran = Zero2
    /\ noops = Zero2
    /\ responses = Zero2
    /\ sends = <<[NoSends EXCEPT !.dispatch = 2, !.escalation = 3]>>
    /\ userOps = 0
    /\ answer = [u \in Owners |-> NoAnswer]
    /\ pending = [u \in Owners |-> NoPending]
    /\ lastCb = NoCallback

\* a step of schedule_reminder or escalate_reminder in worker w
WorkerReminderStep(w) ==
    \/ \E j \in Queued : DispatchStart(w, j)
    \/ DispatchRecord(w)
    \/ DispatchSend(w)
    \/ DispatchSave(w)
    \/ \E j \in Queued : EscalateStart(w, j)
    \/ EscalateSend(w)
    \/ EscalateSave(w)

TermTick == now < TermMaxTime /\ Tick

NextTermination ==
    \/ \E w \in Workers : WorkerReminderStep(w)
    \/ TermTick

\* a worker that can take a step does so, and time passes: Celery workers
\* run the jobs whose eta has come
SpecTermination ==
    /\ InitTermination /\ [][NextTermination]_vars
    /\ \A w \in Workers : WF_vars(WorkerReminderStep(w))
    /\ WF_vars(TermTick)

\* one task is created and reminded; the owner presses buttons of the
\* reminder, and Telegram may deliver a callback again
NextCallback ==
    \/ /\ deliveries < CreateDeliveries
       /\ \E u \in Users, text \in CreateTexts : TelegramWebhook(u, 1, text)
    \/ ParseSteps
    \/ \E w \in Workers, j \in Queued : DispatchStart(w, j)
    \/ \E w \in Workers : DispatchRecord(w)
    \/ \E w \in Workers : DispatchSend(w)
    \/ \E w \in Workers : DispatchSave(w)
    \/ /\ userOps < CallbackOps
       /\ \E u \in Users, t \in TaskIds, a \in Buttons :
             /\ tasks[t].user = u
             /\ sends[t].dispatch >= 1
             /\ DeliverCallback(u, a, t)
    \/ userOps < CallbackOps /\ RedeliverCallback
    \/ now < CallbackMaxTime /\ Tick

SpecCallback == Init /\ [][NextCallback]_vars

\* two owners write to the assistant, the same message ids coming from both
\* chats, each update delivered once and handled without a failure; a
\* callback may name any Task row
OwnerTexts ==
    {Text("new_task", 10), Text("modify_task", 20), Text("delete_task", NoTime),
     NewTasksText(<<10>>, TRUE), Text("location_query_needed", NoTime)}

\* the id of the next message in the chat of owner u
NextMsgId(u) == Cardinality({m \in MsgIds : posted[u][m] # NoText}) + 1

NextOwners ==
    \/ /\ deliveries < OwnerDeliveries
       /\ \E u \in Owners, text \in OwnerTexts : TelegramWebhook(u, NextMsgId(u), text)
    \/ \E w \in Workers, j \in Queued : ParseStart(w, j)
    \/ \E w \in Workers : ParseLog(w)
    \/ \E w \in Workers : ParseHandle(w)
    \/ \E w \in Workers : ParseClear(w)
    \/ /\ userOps < OwnerOps
       /\ \E u \in Owners, t \in TaskIds, a \in Buttons : DeliverCallback(u, a, t)
    \/ Tick

SpecOwners == Init /\ [][NextOwners]_vars

\* the owner asks for a list of tasks.  The rows that exist when they ask:
\* each one of the owner, pending or cancelled, due yesterday, at an hour of
\* today (day 2 of the clock, UTC), tomorrow or later; a pending row that is
\* due already was reminded once, one that is not has its dispatch job queued
QueryNows == {Days(1) + Hours(1), Days(1) + Hours(7), Days(1) + Hours(16)}

QueryDues ==
    {Days(1) - 1, Days(1), Days(1) + Hours(6), Days(1) + Hours(11),
     Days(1) + Hours(12) - 1, Days(1) + Hours(12), Days(1) + Hours(17),
     Days(1) + Hours(18), Days(2) - 1, Days(2), Days(3)}

QueryRow(u, due, status, t) ==
    IF status = "pending" /\ due <= t
    THEN [NewTask(u, due, NoId) EXCEPT !.reminder_count = 1, !.last_reminded_at = due]
    ELSE [NewTask(u, due, NoId) EXCEPT !.status = status]

InitQuery ==
    /\ now \in QueryNows
    /\ \E u \in Users, due \in [1..QueryTasks -> QueryDues],
          st \in [1..QueryTasks -> {"pending", "cancelled"}] :
          LET rows == [i \in 1..QueryTasks |-> QueryRow(u, due[i], st[i], now)]
              reminded == SelectSeq([i \in 1..QueryTasks |-> i],
                                    LAMBDA i : rows[i].reminder_count = 1)
          IN  /\ tasks = rows
              /\ sends = [i \in 1..QueryTasks |->
                             [NoSends EXCEPT !.dispatch = rows[i].reminder_count]]
              /\ reminders = [k \in 1..Len(reminded) |->
                                 [task |-> reminded[k], status |-> "sent"]]
              /\ queue = SetToBag({DispatchJob(u, i, due[i]) :
                                     i \in {k \in 1..QueryTasks :
                                               st[k] = "pending" /\ due[k] > now}})
    /\ inLogs = Zero2
    /\ wk = [w \in Workers |-> Idle]
    /\ posted = [u \in Owners |-> [m \in MsgIds |-> NoText]]
    /\ deliveries = 0
    /\ enq = Zero2
    /\ ran = Zero2
    /\ noops = Zero2
    /\ responses = Zero2
    /\ userOps = 0
    /\ answer = [u \in Owners |-> NoAnswer]
    /\ pending = [u \in Owners |-> NoPending]
    /\ lastCb = NoCallback

QueryTexts == {QueryText(q) : q \in QueryTypes}

NextQuery ==
    \/ /\ deliveries < QueryDeliveries
       /\ \E u \in Users, text \in QueryTexts :
             TelegramWebhook(u, deliveries + 1, text)
    \/ ParseSteps

SpecQuery == InitQuery /\ [][NextQuery]_vars

\* ======================================================== claims, intake
\* no parse job for (u, m) is queued and no worker is executing one
Settled(u, m) ==
    /\ \A j \in Queued : ~(j.kind = "parse" /\ j.user = u /\ j.mid = m)
    /\ \A w \in Workers :
          wk[w].pc \in {"log", "handle"} => ~(wk[w].job.user = u /\ wk[w].job.mid = m)

\* the texts whose handling can succeed (a new_task without due time never can)
Processable(text) == text # NoText /\ ~(text.intent = "new_task" /\ text.due = NoTime)

\* Task rows created from message m of user u
CreatedBy(u, m) == {t \in TaskIds : tasks[t].user = u /\ tasks[t].mid = m}

\* C1: posting the same update (same chat, same message_id) any number of
\* times enqueues parse_user_message once.
C1_IngressDedup == \A u \in Users, m \in MsgIds : enq[u][m] <= 1

\* C2: an execution of parse_user_message for (u, m) that starts after another
\* execution for (u, m) has ended changes nothing: no log row, no task, no
\* job, no response; the worker is free again at once.
C2_LaterExecutionIsNoOp ==
    [][\A j \in Queued :
          (/\ j.kind = "parse" /\ j.mid # NoId
           /\ ran[j.user][j.mid] >= 1
           /\ CopiesIn(j, queue') < CopiesIn(j, queue))
          => /\ queue' = Dequeue(queue, j)
             /\ wk' = wk
             /\ UNCHANGED <<tasks, reminders, inLogs, responses, sends>>]_vars

\* C2 witness: a message was delivered twice, handled once with one response,
\* and its second execution started afterwards and was skipped.
C2_Witness ==
    \E u \in Users, m \in MsgIds :
        /\ enq[u][m] = 2 /\ noops[u][m] = 1 /\ Settled(u, m)
        /\ inLogs[u][m] = 1 /\ responses[u][m] = 1

\* C3: of the executions of parse_user_message for one (u, m), also when they
\* overlap, exactly one gets past the idempotency check: one log row, at most
\* one task and at most one response.
C3_SingleWinner ==
    \A u \in Users, m \in MsgIds :
        /\ inLogs[u][m] <= 1
        /\ responses[u][m] <= 1
        /\ Cardinality(CreatedBy(u, m)) <= 1

\* C4: once the incoming log of a processable message m is written and all
\* executions and retries for m are over, m has been answered exactly once
\* (an execution that failed after writing the log is made good by a retry).
C4_NoSilentDrop ==
    \A u \in Users, m \in MsgIds :
        (/\ inLogs[u][m] >= 1 /\ Settled(u, m)
         /\ Processable(posted[u][m])
         /\ ran[u][m] <= ParseMaxRetries)
        => responses[u][m] = 1

\* ===================================================== claims, reminders
\* this step takes job j off the broker: a worker starts it
Starts(j) == CopiesIn(j, queue') < CopiesIn(j, queue)

ReminderJob(j) == j.kind \in {"dispatch", "escalate"}

\* no job of any kind is queued or being executed
Quiescent == Queued = {} /\ \A w \in Workers : wk[w].pc = "idle"

\* Reminder rows of task t
RemindersOf(rs, t) == {k \in 1..Len(rs) : rs[k].task = t}

\* C5: schedule_reminder or escalate_reminder that starts for a completed or
\* cancelled task ends at once: nothing sent, no Reminder row, the task row
\* untouched, no job queued.
C5_TerminalJobIsNoOp ==
    [][\A j \in Queued :
          (ReminderJob(j) /\ Starts(j) /\ tasks[j.task].status \in Terminal)
          => /\ queue' = Dequeue(queue, j)
             /\ wk' = wk
             /\ tasks' = tasks /\ reminders' = reminders
             /\ sends'[j.task].dispatch = sends[j.task].dispatch
             /\ sends'[j.task].escalation = sends[j.task].escalation]_vars

\* C5 witness: an escalation job has started for a task that was already
\* completed or cancelled, after two reminders had been sent for it.
C5_Witness ==
    \E t \in TaskIds :
        /\ sends[t].eskipped >= 1 /\ tasks[t].status \in Terminal
        /\ sends[t].dispatch >= 2

\* C6: once a task is completed or cancelled, no step changes its status,
\* due_at or reminder_count.
C6_TerminalAbsorbing ==
    [][\A t \in TaskIds :
          tasks[t].status \in Terminal
          => /\ tasks'[t].status = tasks[t].status
             /\ tasks'[t].due_at = tasks[t].due_at
             /\ tasks'[t].reminder_count = tasks[t].reminder_count]_vars

\* every job that is executing for task t read the row as it is now (none was
\* already past its status test when the row was last written)
JobsSawRow(t) ==
    \A w \in Workers :
        (wk[w].pc # "idle" /\ ReminderJob(wk[w].job) /\ wk[w].job.task = t)
        => wk[w].row = tasks[t]

\* C7: while a task is snoozed and its snooze has not run out, no job (dispatch
\* or escalation) that was still queued when the task was snoozed sends a
\* reminder for it or creates a Reminder row for it.
C7_SnoozeSilence ==
    [][\A t \in TaskIds :
          (StillSnoozed(tasks[t]) /\ tasks'[t] = tasks[t] /\ JobsSawRow(t))
          => /\ sends'[t].dispatch = sends[t].dispatch
             /\ sends'[t].escalation = sends[t].escalation
             /\ RemindersOf(reminders', t) = RemindersOf(reminders, t)]_vars

\* C8: when a task that was never completed or cancelled has been snoozed for
\* k > 0 minutes, the snooze has run out, the task was not snoozed, completed or
\* cancelled again and no job is queued or running any more, exactly one
\* dispatch message was sent for it at or after the end of the snooze.
C8_SnoozeWakeUp ==
    \A t \in TaskIds :
        (/\ tasks[t].status = "snoozed" /\ now >= tasks[t].snoozed_until
         /\ sends[t].snoozedAt < tasks[t].snoozed_until
         /\ tasks[t].completed_at = NoTime
         /\ sends[t].skipped = 0 /\ sends[t].eskipped = 0
         /\ Quiescent)
        => sends[t].afterSnooze = 1

\* C9: a snoozed task has snoozed_until set, and every snooze a user performs
\* writes a snoozed_until later than the time of the snooze.
C9_SnoozeInvariant ==
    /\ [](\A t \in TaskIds :
             tasks[t].status = "snoozed" => tasks[t].snoozed_until # NoTime)
    /\ [][\A t \in TaskIds :
             (userOps' # userOps /\ tasks'[t] # tasks[t] /\ tasks'[t].status = "snoozed")
             => tasks'[t].snoozed_until > now]_vars

\* ==================================================== claims, escalation
\* C10: at most MaxEscalations escalation messages are ever sent for a task and
\* its reminder_count never exceeds MaxEscalations.
C10_EscalationCap ==
    \A t \in TaskIds :
        /\ sends[t].escalation <= MaxEscalations
        /\ tasks[t].reminder_count <= MaxEscalations

\* C11: when the first reminder of a task has gone out, the user has done
\* nothing (no button, no request, no further message) and no job is queued or
\* running any more, an escalation message has been sent for the task.
C11_EscalationStarts ==
    \A t \in TaskIds :
        (/\ sends[t].dispatch >= 1 /\ tasks[t].status = "pending"
         /\ deliveries = 1 /\ userOps = 0
         /\ Quiescent)
        => sends[t].escalation >= 1

\* worker w finishes schedule_reminder / escalate_reminder in this step
DispatchEnds(w) == wk[w].pc = "save" /\ wk'[w].pc = "idle"

EscalateEnds(w) == wk[w].pc = "esave" /\ wk'[w].pc = "idle"

\* worker w sends its escalation message in this step
EscalateSends(w) == wk[w].pc = "esend" /\ wk'[w].pc = "esave"

\* C12: schedule_reminder queues an escalation job exactly when the count it
\* has just written is at least EscalateAfter, EscalationMinutes ahead;
\* escalate_reminder queues nothing or one escalation job EscalationMinutes
\* ahead; and a message of an escalation chain goes out no sooner than
\* EscalationMinutes after the message before it in the chain.
C12_EscalationCadence ==
    [][\A w \in Workers :
          LET t == wk[w].job.task
              next == EscalateJob(wk[w].job.user, t, now + EscalationMinutes,
                                  wk[w].sent)
          IN  /\ DispatchEnds(w) =>
                    queue' = IF tasks'[t].reminder_count >= EscalateAfter
                             THEN Enqueue(queue, next) ELSE queue
              /\ EscalateEnds(w) => queue' \in {queue, Enqueue(queue, next)}
              /\ EscalateSends(w) =>
                    /\ wk[w].job.spaced
                    /\ now >= wk[w].job.eta]_vars

\* C12 witness: a chain has sent three escalation messages, the last one of
\* them just now.
C12_Witness ==
    \E w \in Workers :
        /\ wk[w].pc = "esave" /\ wk[w].sent = now
        /\ deliveries = 2 /\ sends[wk[w].job.task].escalation >= 3

\* C13: an escalation message has the urgent wording exactly when the
\* reminder_count its job read (before incrementing it) is at least UrgentAfter,
\* and the persistent wording otherwise.
C13_EscalationTier ==
    [][\A w \in Workers :
          EscalateSends(w) =>
              /\ wk'[w].tier \in {"urgent", "persistent"}
              /\ wk'[w].tier = "urgent" <=> wk[w].row.reminder_count >= UrgentAfter]_vars

\* C13 witness: an urgent escalation message has just gone out for a task
\* whose earlier escalation message, sent at count 2, was a persistent one.
C13_Witness ==
    \E w \in Workers :
        /\ wk[w].pc = "esave" /\ wk[w].tier = "urgent"
        /\ wk[w].row.reminder_count = UrgentAfter
        /\ sends[wk[w].job.task].dispatch = 2
        /\ sends[wk[w].job.task].escalation = 2

\* ======================================================= claims, queries
\* the pending rows of user u
PendingOf(u) == {i \in TaskIds : tasks[i].user = u /\ tasks[i].status = "pending"}

\* task i is due today at h o'clock sharp, on the owner's clock
DueTodayAt(i, h) ==
    LocalTime(tasks[i].due_at) = TodayStart(LocalTime(now)) + Hours(h)

\* the window a query_type names, by one hour inside it
NamedHour(q) == CASE q = "morning" -> 9 [] q = "afternoon" -> 14 [] q = "evening" -> 20

DayParts == {"morning", "afternoon", "evening"}

\* C14: the lists for morning, afternoon and evening are pairwise disjoint and
\* together make up the list for today; and a list the owner was sent for one
\* of them holds the tasks due today at 09:00 / 14:00 / 20:00 respectively and
\* none of those due at the two other hours.
C14_QueryWindows ==
    \A u \in Users :
        /\ \A p \in DayParts, q \in DayParts :
               p # q => GetUserTasks(u, p) \cap GetUserTasks(u, q) = {}
        /\ UNION {GetUserTasks(u, p) : p \in DayParts} = GetUserTasks(u, "today")
        /\ answer[u].query_type \in DayParts =>
               \A i \in PendingOf(u), p \in DayParts :
                   DueTodayAt(i, NamedHour(p)) =>
                       (i \in answer[u].tasks <=> p = answer[u].query_type)

\* C15: a list the owner was sent for 'all' holds every task of the list for
\* today and every pending task due on a later day.
C15_AllIsSuperset ==
    \A u \in Users :
        answer[u].query_type = "all" =>
            /\ GetUserTasks(u, "today") \subseteq answer[u].tasks
            /\ \A i \in PendingOf(u) :
                   tasks[i].due_at >= TodayStart(now) + Days(1) => i \in answer[u].tasks

\* ============================================== claims, create and remind
\* Reminder rows of task t with status 'sent'
SentRemindersOf(t) == {k \in RemindersOf(reminders, t) : reminders[k].status = "sent"}

\* C16: a new_task message makes at most one task, one confirmation and, with
\* the retries of a dispatch job that failed part-way included, one reminder
\* message and one Reminder row with status sent; when everything has run and
\* a reminder went out, it is exactly one of each.
C16_CreateAndRemind ==
    \A u \in Users, m \in MsgIds :
        /\ Cardinality(CreatedBy(u, m)) <= 1
        /\ responses[u][m] <= 1
        /\ \A t \in CreatedBy(u, m) :
              /\ tasks[t].due_at = posted[u][m].due
              /\ sends[t].dispatch <= 1
              /\ Cardinality(SentRemindersOf(t)) <= 1
              /\ (Quiescent /\ sends[t].dispatch >= 1) =>
                    Cardinality(SentRemindersOf(t)) = 1

\* ================================================= claims, pending batch
\* worker w answers its message in this step
Answers(w) ==
    /\ wk[w].pc \in {"handle", "clear"} /\ wk'[w].pc = "idle"
    /\ responses'[wk[w].job.user][wk[w].job.mid] > responses[wk[w].job.user][wk[w].job.mid]

\* C17: handling a new_tasks message that needs the owner's location creates no
\* Task row and queues no job, leaves the owner's pending batch active with the
\* drafts and the message in it, and sends one reply (the location prompt).
C17_PendingLocationHold ==
    [][\A w \in Workers :
          LET j == wk[w].job IN
          (/\ Answers(w)
           /\ j.text.intent = "new_tasks" /\ j.text.needs_location_input)
          => /\ tasks' = tasks /\ queue' = queue /\ reminders' = reminders
             /\ pending'[j.user].exists /\ pending'[j.user].is_active
             /\ pending'[j.user].drafts = j.text.drafts
             /\ pending'[j.user].original = j.text
             /\ responses'[j.user][j.mid] = responses[j.user][j.mid] + 1]_vars

\* C17 witness: the message was handled; the batch is active, no task
\* exists and one reply went out.
C17_Witness ==
    \E u \in Users, m \in MsgIds :
        /\ posted[u][m].intent = "new_tasks" /\ posted[u][m].needs_location_input
        /\ responses[u][m] = 1 /\ Settled(u, m)
        /\ pending[u].is_active /\ pending[u].drafts = posted[u][m].drafts
        /\ tasks = <<>> /\ Queued = {}

\* Task rows of user u made from a pending batch (they carry the id of a
\* location message)
Materialized(u) ==
    {t \in TaskIds : /\ tasks[t].user = u /\ tasks[t].mid # NoId
                     /\ posted[u][tasks[t].mid].intent = "location_query_needed"}

\* C18: the drafts of a pending batch become Task rows at most once, whatever
\* messages, retries and failures follow; and once a location message that
\* found the batch is answered, the batch is inactive.
C18_BatchConsumedOnce ==
    \A u \in Users :
        /\ Cardinality(Materialized(u)) <= Len(pending[u].drafts)
        /\ \A t \in Materialized(u) :
               responses[u][tasks[t].mid] >= 1 => ~pending[u].is_active

\* ====================================================== claims, callbacks
\* this step delivers a callback for the first time / once more
FirstDelivery == lastCb'.deliveries = 1 /\ lastCb' # lastCb

Redelivery == lastCb'.deliveries = lastCb.deliveries + 1 /\ lastCb.deliveries >= 1

\* C19: a second delivery of the same callback leaves the task's status,
\* completed_at and snoozed_until as the first delivery left them.
C19_CallbackIdempotency ==
    [][Redelivery =>
          LET row == tasks'[lastCb.task] IN
          /\ row.status = lastCb.after.status
          /\ row.completed_at = lastCb.after.completed_at
          /\ row.snoozed_until = lastCb.after.snoozed_until]_vars

\* the status each button stands for
ButtonStatus(action) ==
    CASE action = "complete" -> "completed"
      [] action = "snooze" -> "snoozed"
      [] action = "delete" -> "cancelled"

\* C20: a callback from a button of a reminder, for a task owned by the
\* sender, leaves the task completed (complete), snoozed (snooze) or
\* cancelled (delete).
C20_CallbackActions ==
    [][FirstDelivery =>
          tasks'[lastCb'.task].status = ButtonStatus(lastCb'.action)]_vars

\* ========================================================= claims, owners
\* this step is made for owner b: an update of b is posted, a job of b moves
\* in a worker, or a callback comes from the chat of b
ActsFor(b) ==
    \/ enq'[b] # enq[b]
    \/ \E w \in Workers :
          wk'[w] # wk[w] /\ (wk[w].job.user = b \/ wk'[w].job.user = b)
    \/ lastCb' # lastCb /\ lastCb'.user = b

\* the Task rows, the pending batch and the incoming logs of owner b are the
\* same after the step
OwnerUntouched(b) ==
    /\ \A t \in TaskIds : tasks[t].user = b => tasks'[t] = tasks[t]
    /\ \A t \in (1..Len(tasks')) \ TaskIds : tasks'[t].user # b
    /\ pending'[b] = pending[b]
    /\ inLogs'[b] = inLogs[b]

\* message m of owner u was posted and no job for it is queued or running
HandledOnce(u, m) ==
    /\ posted[u][m] # NoText
    /\ \A j \in Queued : ~(j.kind = "parse" /\ j.user = u /\ j.mid = m)
    /\ \A w \in Workers :
          wk[w].pc # "idle" => ~(wk[w].job.user = u /\ wk[w].job.mid = m)

\* C21: a step made for one owner leaves the Task rows, the pending batch and
\* the incoming logs of every other owner unchanged (so a callback that names
\* another owner's task does not touch it); and a message id that came from
\* two chats is handled once for each owner: one incoming log and one reply
\* each.
C21_OwnerIsolation ==
    [][/\ \A b \in Owners : ~ActsFor(b) => OwnerUntouched(b)
       /\ \A u \in Owners, m \in MsgIds :
             HandledOnce(u, m)' => (inLogs'[u][m] = 1 /\ responses'[u][m] = 1)]_vars

\* C21 witness: owner a created a task with message 1; owner b sent
\* modify_task under the same id 1, which was answered, and a complete
\* callback naming a's task; the task is as it was created.
C21_Witness ==
    \E a \in Owners, b \in Owners, t \in TaskIds :
        /\ a # b /\ tasks[t].user = a /\ tasks[t].mid = 1
        /\ posted[b][1].intent = "modify_task" /\ HandledOnce(b, 1)
        /\ lastCb.user = b /\ lastCb.task = t /\ lastCb.action = "complete"
        /\ tasks[t] = NewTask(a, 10, 1)

\* ================================================= claims, racing jobs
\* C22: when a dispatch or escalation job saves its task after the user has
\* completed or cancelled it (the job had read the row before that), the task
\* keeps its completed / cancelled status.
C22_NoResurrection ==
    [][\A w \in Workers :
          LET t == wk[w].job.task IN
          (/\ DispatchEnds(w) \/ EscalateEnds(w)
           /\ tasks[t].status \in Terminal)
          => tasks'[t].status = tasks[t].status]_vars

\* C23: of two dispatch jobs for the same task that run at the same time, at
\* most one sends a reminder: they are never both past the send.
C23_NoDoubleSend ==
    \A w1 \in Workers, w2 \in Workers :
        (/\ w1 # w2
         /\ wk[w1].job.kind = "dispatch" /\ wk[w2].job.kind = "dispatch"
         /\ wk[w1].job.task = wk[w2].job.task)
        => ~(wk[w1].pc = "save" /\ wk[w2].pc = "save")

\* C24: the stored reminder_count of a task never decreases and is never
\* negative.
C24_ReminderCountMonotonic ==
    [][\A t \in TaskIds :
          /\ tasks'[t].reminder_count >= tasks[t].reminder_count
          /\ tasks'[t].reminder_count >= 0]_vars

\* ================================================= claims, retry policies
\* the execution of parse_user_message in worker w ends in the except clause
ParseFails(w) ==
    /\ wk[w].pc \in {"handle", "clear"} /\ wk'[w].pc = "idle"
    /\ responses' = responses

\* C25: a failed execution of parse_user_message with retries = r is queued
\* again once, r + 1 in its retries, due 1, 2, 4 minutes later for r = 0, 1, 2;
\* a failed execution with retries = 3 queues nothing.
C25_IntakeRetryPolicy ==
    [][\A w \in Workers :
          LET j == wk[w].job
              delay == CASE j.retries = 0 -> 1 [] j.retries = 1 -> 2
                         [] j.retries = 2 -> 4 [] OTHER -> 0
          IN  ParseFails(w) =>
                  IF j.retries < 3
                  THEN queue' = queue (+) SetToBag({[j EXCEPT !.retries = j.retries + 1,
                                                             !.eta = now + delay]})
                  ELSE queue' = queue]_vars

\* C25 witness: one update was posted once and its job failed four times, the
\* last time at minute 7 or later (1 + 2 + 4); nothing is queued for it.
C25_Witness ==
    \E u \in Users :
        /\ enq[u][NoId] = 1 /\ ran[u][NoId] = 4 /\ responses[u][NoId] = 0
        /\ now >= 7
        /\ \A j \in Queued : j.kind # "parse"
        /\ \A w \in Workers : wk[w].pc = "idle"

\* the execution of schedule_reminder in worker w ends in the except clause
DispatchFails(w) ==
    /\ wk[w].pc \in {"record", "send", "save"} /\ wk'[w].pc = "idle"
    /\ sends'[wk[w].job.task].failed > sends[wk[w].job.task].failed

\* a queued schedule_reminder job for a missing Task row is taken
StartsNotFound(j) == j.kind = "dispatch" /\ j.task \notin TaskIds /\ Starts(j)

\* C26: a failed execution of schedule_reminder with retries = r < 5 is queued
\* again once, due 5 minutes later; with retries = 5 nothing is queued; in
\* both cases the Task rows stay as stored.  An execution for a task that
\* does not exist only leaves the broker: nothing is queued, written or sent.
C26_DispatchRetryPolicy ==
    [][/\ \A w \in Workers :
             LET j == wk[w].job IN
             DispatchFails(w) =>
                 /\ tasks' = tasks
                 /\ IF j.retries < 5
                    THEN queue' = queue (+) SetToBag({[j EXCEPT !.retries = j.retries + 1,
                                                               !.eta = now + 5]})
                    ELSE queue' = queue
       /\ \A j \in Queued :
             StartsNotFound(j) =>
                 /\ queue' = Dequeue(queue, j)
                 /\ UNCHANGED <<tasks, reminders, sends, wk>>]_vars

\* C26 witness: the job of a task failed six times, the last time 25 minutes
\* or more after the due time, and nothing is queued any more, the job for
\* the deleted task neither.
C26_Witness ==
    \E t \in TaskIds :
        /\ sends[t].failed = 6 /\ now >= tasks[t].due_at + 25
        /\ Queued = {} /\ \A w \in Workers : wk[w].pc = "idle"

\* ============================================ claims, failing sends
\* worker w ends an execution of escalate_reminder whose message did not go out
EscalationEndsUnsent(w) ==
    /\ wk[w].job.kind = "escalate" /\ wk[w].pc \in {"esend", "esave"}
    /\ wk[w].sent = NoTime
    /\ wk'[w].pc = "idle"

\* C27: when the send of an escalation job fails, the job ends without a
\* retry, without incrementing reminder_count and without queueing the next
\* escalation.
C27_EscalationEndsOnError ==
    [][\A w \in Workers :
          EscalationEndsUnsent(w) =>
              /\ tasks'[wk[w].job.task].reminder_count
                     = tasks[wk[w].job.task].reminder_count
              /\ queue' = queue]_vars

\* ============================================ claims, snoozed dispatch
\* C28: a schedule_reminder job that starts for a task with status snoozed
\* and snoozed_until in the future leaves the broker and queues one dispatch
\* job for snoozed_until; it sends nothing, creates no Reminder row and
\* leaves the Task rows as they are.
C28_SnoozedDispatch ==
    [][\A j \in Queued :
          (/\ j.kind = "dispatch" /\ Starts(j) /\ j.task \in TaskIds
           /\ tasks[j.task].status = "snoozed"
           /\ tasks[j.task].snoozed_until > now)
          => /\ queue' = Enqueue(Dequeue(queue, j),
                                 Job("dispatch", j.user, NoId, NoText, j.task,
                                     tasks[j.task].snoozed_until, 0))
             /\ UNCHANGED <<tasks, reminders, sends, wk>>]_vars

\* C28 witness: the due time of a snoozed task has come, its job ran and was
\* replaced by one for the end of the snooze; nothing was sent.
C28_Witness ==
    \E t \in TaskIds :
        /\ tasks[t].status = "snoozed"
        /\ now >= tasks[t].due_at /\ now < tasks[t].snoozed_until
        /\ Queued = {DispatchJob(tasks[t].user, t, tasks[t].snoozed_until)}
        /\ tasks[t].snoozed_until # tasks[t].due_at
        /\ sends[t].dispatch = 0 /\ reminders = <<>>
        /\ \A w \in Workers : wk[w].pc = "idle"

\* ============================================ claims, Reminder rows
\* C29: a dispatch attempt that is about to send has its Reminder row in
\* status scheduled; a Reminder row is scheduled only while its attempt is
\* at the send (afterwards it is sent or failed); no row is acknowledged.
C29_ReminderLifecycle ==
    /\ \A w \in Workers :
          wk[w].pc = "send" => reminders[wk[w].rem].status = "scheduled"
    /\ \A k \in 1..Len(reminders) :
          /\ reminders[k].status \in {"scheduled", "sent", "failed"}
          /\ reminders[k].status = "scheduled"
                 => \E w \in Workers : wk[w].pc = "send" /\ wk[w].rem = k

\* ============================================ claims, modify_task
\* the newest Task row of owner u that is neither completed nor cancelled
NewestLive(u) ==
    LET live == {i \in TaskIds : tasks[i].user = u /\ tasks[i].status \notin Terminal}
    IN  IF live = {} THEN NoTask ELSE CHOOSE i \in live : \A k \in live : k <= i

\* worker w answers a modify_task message that carries a due time
ModifyHandled(w) ==
    /\ Answers(w)
    /\ wk[w].job.text.intent = "modify_task" /\ wk[w].job.text.due # NoTime

\* C30: handling a modify_task message gives its due time to the owner's
\* newest task that is neither completed nor cancelled, a snoozed one included.
C30_ModifyTarget ==
    [][\A w \in Workers :
          LET u == wk[w].job.user
              t == NewestLive(u)
          IN  (ModifyHandled(w) /\ t # NoTask)
              => tasks'[t].due_at = wk[w].job.text.due]_vars

\* worker w answers a modify_task message
ModifyAnswered(w) == Answers(w) /\ wk[w].job.text.intent = "modify_task"

\* C31: handling a modify_task message that changes a task's due_at to D'
\* enqueues exactly one dispatch job for that task at D'; handling one that
\* carries no due time changes no task, enqueues nothing and does not tell
\* the owner that the task was updated.
C31_ModifyReschedules ==
    [][\A w \in Workers :
          LET j == wk[w].job
              u == j.user
          IN  ModifyAnswered(w) =>
                /\ \A t \in TaskIds :
                      tasks'[t].due_at # tasks[t].due_at =>
                        /\ tasks'[t].due_at = j.text.due
                        /\ queue' = Enqueue(queue, DispatchJob(u, t, j.text.due))
                /\ j.text.due = NoTime =>
                      /\ tasks' = tasks /\ queue' = queue
                      /\ answer'[u].said # "updated"]_vars

\* ============================================ claims, delete_task
\* worker w takes a reminder job of task t past the terminal test
PassesTerminalTest(w, t) ==
    /\ wk[w].pc = "idle" /\ wk'[w].pc \in {"record", "esend"}
    /\ wk'[w].job.task = t

\* C32: delete_task sets the task to cancelled and keeps the row and the
\* queued jobs; once the cancellation is stored, a dispatch or escalation
\* job that starts for the task ends at the terminal test and sends nothing.
C32_SoftCancellation ==
    [][/\ Len(tasks') >= Len(tasks)
       /\ \A w \in Workers :
             (Answers(w) /\ wk[w].job.text.intent = "delete_task")
             => /\ queue' = queue
                /\ LET t == FindRecentTask(wk[w].job.user)
                   IN  t # NoTask => tasks'[t].status = "cancelled"
       /\ \A w \in Workers, t \in TaskIds :
             sends[t].deleted => ~PassesTerminalTest(w, t)]_vars

\* ============================================ claims, read-only intents
\* the intents whose branch creates, changes or cancels tasks or batches
WritingIntents ==
    {"new_task", "new_tasks", "location_query_needed", "modify_task", "delete_task"}

\* worker w takes a step of its parse_user_message execution
ParseMoves(w) == wk[w].pc \in {"log", "handle", "clear"} /\ wk'[w] # wk[w]

\* C33: an execution of parse_user_message for query_tasks, general_question
\* or an unclassified intent changes no Task row, no Reminder row and no
\* PendingBatch, and adds no dispatch or escalation job to the broker.
C33_ReadOnlyIntents ==
    [][\A w \in Workers :
          (ParseMoves(w) /\ wk[w].job.text.intent \notin WritingIntents)
          => /\ tasks' = tasks /\ reminders' = reminders /\ pending' = pending
             /\ \A j \in BagToSet(queue') :
                   ReminderJob(j) => CopiesIn(j, queue') = CopiesIn(j, queue)]_vars

\* a message with an unclassified intent was answered while the owner had a
\* pending task with a queued dispatch job, a Reminder row and a waiting batch
C33_Witness ==
    /\ \E u \in Users, m \in MsgIds :
          posted[u][m].intent = "small_talk" /\ responses[u][m] = 1
    /\ \E t \in TaskIds : tasks[t].status = "pending"
    /\ \E j \in Queued : j.kind = "dispatch"
    /\ reminders # <<>>
    /\ \E u \in Users : pending[u].is_active

\* ============================================ claims, task creation
\* the drafts that the execution of job j tries to create
DraftsOf(j) ==
    CASE Branch(j.text) = "new_task" -> <<j.text.due>>
      [] Branch(j.text) = "new_tasks" /\ ~AsksForLocation(j.text) -> j.text.drafts
      [] Branch(j.text) = "location_query_needed"
             /\ pending[j.user].exists /\ pending[j.user].is_active
         -> pending[j.user].drafts
      [] OTHER -> <<>>

\* worker w runs the branch of its message in this step
Handles(w) == wk[w].pc = "handle" /\ wk'[w].pc # "handle"

\* C35: a message whose draft, or one of whose drafts, has no due time creates
\* no Task row, is answered with a question to the owner, and its intake job
\* is not queued again.
C35_MissingDueTime ==
    [][\A w \in Workers :
          LET j == wk[w].job IN
          (Handles(w) /\ ~AllDue(DraftsOf(j)))
          => /\ tasks' = tasks
             /\ responses'[j.user][j.mid] = responses[j.user][j.mid] + 1
             /\ queue' = queue]_vars

\* a dispatch job for task t is queued
Scheduled(t) == \E j \in Queued : j.kind = "dispatch" /\ j.task = t

\* C36: every Task row that is not completed or cancelled has had a dispatch
\* job enqueued, also when the creation of a later task of the same batch
\* failed (no job runs in this scenario: the job is still queued).
C36_BatchFailureIsolation ==
    \A t \in TaskIds : tasks[t].status \notin Terminal => Scheduled(t)

\* the execution of parse_user_message in worker w raises in this step: its
\* intake job is queued again
Raises(w) ==
    /\ wk[w].pc \in {"handle", "clear"} /\ wk'[w].pc = "idle"
    /\ \E j \in BagToSet(queue') :
          j.kind = "parse" /\ CopiesIn(j, queue') > CopiesIn(j, queue)

\* the execution of parse_user_message in worker w ends without error
Completes(w) ==
    /\ wk[w].pc \in {"handle", "clear"} /\ wk'[w].pc = "idle"
    /\ ~Raises(w)

\* the dispatch jobs queued for task t in bag q, with their numbers
DispatchJobsOf(q, t) ==
    {<<j, CopiesIn(j, q)>> : j \in {x \in BagToSet(q) : x.kind = "dispatch" /\ x.task = t}}

\* C34: an execution of parse_user_message that passes the idempotency check
\* and ends without error sends one response, at its end, and has queued one
\* dispatch job at due_at for every Task row it created.
C34_OneResponseOneJob ==
    [][\A w \in Workers :
          LET j == wk[w].job
              u == j.user
          IN  /\ Completes(w) => responses' = Bump(responses, u, j.mid)
              /\ (ParseMoves(w) /\ ~Completes(w) /\ ~Raises(w)) => responses' = responses
              /\ (Handles(w) /\ ~Raises(w)) =>
                    \A t \in (Len(tasks) + 1)..Len(tasks') :
                        DispatchJobsOf(queue', t) =
                            {<<DispatchJob(u, t, tasks'[t].due_at), 1>>}]_vars

\* the owner's answer about the location was handled: the two tasks of the
\* waiting batch exist, each with its dispatch job, and one response went out
C34_Witness ==
    \E u \in Users, m \in MsgIds :
        /\ posted[u][m].intent = "location_query_needed"
        /\ responses[u][m] = 1 /\ Settled(u, m)
        /\ Cardinality(CreatedBy(u, m)) = 2
        /\ \A t \in CreatedBy(u, m) : Scheduled(t)

\* ============================================ claims, reminders and time
\* a reminder or escalation message for task t goes out in this step
ReminderSent(t) ==
    sends'[t].dispatch + sends'[t].escalation > sends[t].dispatch + sends[t].escalation

\* C37: no reminder for a task goes out before the due time the task has at
\* that moment; after modify_task has moved due_at from D to a later D', the
\* job queued for D does not send at D.
C37_NoReminderBeforeDue ==
    [][\A t \in TaskIds : ReminderSent(t) => now >= tasks[t].due_at]_vars

\* ============================================ claims, escalation chains
\* the escalation jobs of task t that are queued or being executed
EscalationsInFlight(t) ==
    LET queued == {j \in Queued : j.kind = "escalate" /\ j.task = t}
        copies[js \in SUBSET queued] ==
            IF js = {} THEN 0
            ELSE LET j == CHOOSE x \in js : TRUE
                 IN  CopiesIn(j, queue) + copies[js \ {j}]
        running == {w \in Workers : /\ wk[w].pc \in {"esend", "esave"}
                                    /\ wk[w].job.task = t}
    IN  copies[queued] + Cardinality(running)

\* C38: at most one escalation job per task is queued or running.
C38_SingleEscalationChain == \A t \in TaskIds : EscalationsInFlight(t) <= 1

\* C39: with workers that keep running the jobs that are due, and nobody
\* answering, from some moment on no escalation job for the task is queued
\* or running.
C39_EscalationTerminates == <>[](\A t \in TaskIds : EscalationsInFlight(t) = 0)

\* an escalation chain has run up to the cap and nothing is left of it
C39_Witness ==
    \E t \in TaskIds :
        /\ sends[t].escalation > 0
        /\ tasks[t].reminder_count >= MaxEscalations
        /\ EscalationsInFlight(t) = 0

====
